---- MODULE Spec2Model ----
(***************************************************************************)
(* build_instructions: the directive emitter (Cargo::*, Rustc::* writing   *)
(* one "cargo::" line per call to standard output) and the environment     *)
(* accessor (typed getters over std::env::var).                            *)
(*                                                                         *)
(* Text is a sequence of characters, each character a one-character        *)
(* string; a byte that is no valid text is the token BadByte.              *)
(***************************************************************************)
EXTENDS Naturals, Sequences, FiniteSets, TLC

VARIABLES
    stdout,   \* the process's standard output: the characters written so far
    calls,    \* history: the directive calls made so far, in call order
    environ,  \* the process environment: key -> [set, v]
    ret,      \* the most recent operation and what it returned
    budget    \* state-changing operations the run may still make

vars == <<stdout, calls, environ, ret, budget>>

----------------------------------------------------------------------------
\* Bounds of the model.

\* directive calls in a run of SpecEmit
MaxCalls == 1
\* directive calls in a run of SpecLog
MaxLog == 2
\* directive calls and environment changes in a run of Spec
MaxOps == 1
\* environment changes in a run of SpecEnv
MaxEnvOps == 1

----------------------------------------------------------------------------
\* Characters and payloads.

\* the line terminator println! writes
NL == "\n"
\* a byte of an OsStr that is not valid Unicode
BadByte == "xFF"
\* U+FFFD, what a lossy conversion puts in its place
Replacement == "uFFFD"

\* payloads of a directive call: empty, plain, with '=', with a line break,
\* with a double quote
Text == { <<>>, <<"a">>, <<"x","=","y">>, <<"b","\n","c">>, <<"q","\"">> }
\* a smaller pool for runs of several calls
LogText == { <<>>, <<"a">>, <<"b","\n","c">> }
\* one payload, for runs that interleave directives with environment reads
OneText == { <<"a">> }

\* AsRef<Path> arguments: every text, and a path that is not valid Unicode
Paths(T) == T \cup { <<"d", BadByte>> }

\* values the environment can hold: empty, text, bytes that are not text
OsValues == { <<>>, <<"d","e","m","o">>, <<BadByte>> }

\* names of binaries, as binary_executable_path takes them
BinNames == { "foo", "FOO" }

----------------------------------------------------------------------------
\* rustc.rs: LinkSearchKind and its Display.

LinkSearchKind == {"Dependency", "Crate", "Native", "Framework", "All"}

fmt(kind) ==
    CASE kind = "Dependency" -> <<"d","e","p","e","n","d","e","n","c","y">>
      [] kind = "Crate"      -> <<"c","r","a","t","e">>
      [] kind = "Native"     -> <<"n","a","t","i","v","e">>
      [] kind = "Framework"  -> <<"f","r","a","m","e","w","o","r","k">>
      [] kind = "All"        -> <<"a","l","l">>

\* Path::display(): a lossy rendering, each invalid byte becomes U+FFFD
display(path) ==
    [i \in DOMAIN path |-> IF path[i] = BadByte THEN Replacement ELSE path[i]]

\* a println! that writes the new line before what stdout already holds
println_prepend(line) == stdout' = line \o <<NL>> \o stdout
\* print! in place of println!: no line terminator
print_no_newline(line) == stdout' = stdout \o line
\* println!: the formatted text and a line terminator, appended to stdout
println(line) == stdout' = stdout \o line \o <<NL>>

\* impl Into<Option<_>>: None, or Some(x)
Option(S) == {[some |-> FALSE, v |-> <<>>]} \cup {[some |-> TRUE, v |-> x] : x \in S}

Unit == [tag |-> "()", ty |-> "()", v |-> <<>>]

\* a directive call: it joins the history of calls (a = the first field,
\* b = the second, opt = the kind or the presence of the value), returns ()
\* and leaves the environment alone
Called(op, a, b, opt) ==
    /\ budget' = budget - 1
    /\ calls' = Append(calls, [op |-> op, a |-> a, b |-> b, opt |-> opt])
    /\ ret' = [op |-> op, arg |-> "", res |-> Unit]
    /\ UNCHANGED environ

----------------------------------------------------------------------------
\* cargo.rs: impl Cargo, the directives.

rerun_if_changed(T) ==
    /\ budget > 0
    /\ \E path \in Paths(T) :
        /\ println(<<"c","a","r","g","o",":",":","r","e","r","u","n","-","i","f","-","c","h","a","n","g","e","d","=">> \o display(path))
        /\ Called("rerun_if_changed", path, <<>>, "-")

rerun_if_env_changed(T) ==
    /\ budget > 0
    /\ \E e \in T :
        /\ println(<<"c","a","r","g","o",":",":","r","e","r","u","n","-","i","f","-","e","n","v","-","c","h","a","n","g","e","d","=">> \o e)
        /\ Called("rerun_if_env_changed", e, <<>>, "-")

warning(T) ==
    /\ budget > 0
    /\ \E message \in T :
        /\ println(<<"c","a","r","g","o",":",":","w","a","r","n","i","n","g","=">> \o message)
        /\ Called("warning", message, <<>>, "-")

metadata(T) ==
    /\ budget > 0
    /\ \E key \in T, value \in T :
        /\ println(<<"c","a","r","g","o",":",":","m","e","t","a","d","a","t","a","=">> \o key \o <<"=">> \o value)
        /\ Called("metadata", key, value, "-")

----------------------------------------------------------------------------
\* rustc.rs: impl Rustc.

link_arg(T) ==
    /\ budget > 0
    /\ \E flag \in T :
        /\ println(<<"c","a","r","g","o",":",":","r","u","s","t","c","-","l","i","n","k","-","a","r","g","=">> \o flag)
        /\ Called("link_arg", flag, <<>>, "-")

link_arg_bin(T) ==
    /\ budget > 0
    /\ \E bin \in T, flag \in T :
        /\ println(<<"c","a","r","g","o",":",":","r","u","s","t","c","-","l","i","n","k","-","a","r","g","-","b","i","n","=">> \o bin \o <<"=">> \o flag)
        /\ Called("link_arg_bin", bin, flag, "-")

\* link_arg_bins under the name of link_arg_bin
link_arg_bins_typo(T) ==
    /\ budget > 0
    /\ \E flag \in T :
        /\ println(<<"c","a","r","g","o",":",":","r","u","s","t","c","-","l","i","n","k","-","a","r","g","-","b","i","n","=">> \o flag)
        /\ Called("link_arg_bins", flag, <<>>, "-")

link_arg_bins(T) ==
    /\ budget > 0
    /\ \E flag \in T :
        /\ println(<<"c","a","r","g","o",":",":","r","u","s","t","c","-","l","i","n","k","-","a","r","g","-","b","i","n","s","=">> \o flag)
        /\ Called("link_arg_bins", flag, <<>>, "-")

link_lib(T) ==
    /\ budget > 0
    /\ \E lib \in T :
        /\ println(<<"c","a","r","g","o",":",":","r","u","s","t","c","-","l","i","n","k","-","l","i","b","=">> \o lib)
        /\ Called("link_lib", lib, <<>>, "-")

\* link_arg_tests under the name of link_arg
link_arg_tests_as_link_arg(T) ==
    /\ budget > 0
    /\ \E flag \in T :
        /\ println(<<"c","a","r","g","o",":",":","r","u","s","t","c","-","l","i","n","k","-","a","r","g","=">> \o flag)
        /\ Called("link_arg_tests", flag, <<>>, "-")

link_arg_tests(T) ==
    /\ budget > 0
    /\ \E flag \in T :
        /\ println(<<"c","a","r","g","o",":",":","r","u","s","t","c","-","l","i","n","k","-","a","r","g","-","t","e","s","t","s","=">> \o flag)
        /\ Called("link_arg_tests", flag, <<>>, "-")

link_arg_examples(T) ==
    /\ budget > 0
    /\ \E flag \in T :
        /\ println(<<"c","a","r","g","o",":",":","r","u","s","t","c","-","l","i","n","k","-","a","r","g","-","e","x","a","m","p","l","e","s","=">> \o flag)
        /\ Called("link_arg_examples", flag, <<>>, "-")

\* link_search with the cargo:: prefix on both arms
link_search_namespaced(T) ==
    /\ budget > 0
    /\ \E path \in Paths(T), kind \in LinkSearchKind \cup {"None"} :
        /\ IF kind # "None"
             THEN println(<<"c","a","r","g","o",":",":","r","u","s","t","c","-","l","i","n","k","-","s","e","a","r","c","h","=">> \o fmt(kind) \o <<"=">> \o display(path))
             ELSE println(<<"c","a","r","g","o",":",":","r","u","s","t","c","-","l","i","n","k","-","s","e","a","r","c","h","=">> \o display(path))
        /\ Called("link_search", path, <<>>, kind)

link_search(T) ==
    /\ budget > 0
    /\ \E path \in Paths(T), kind \in LinkSearchKind \cup {"None"} :
        /\ IF kind # "None"
             THEN println(<<"c","a","r","g","o",":",":","r","u","s","t","c","-","l","i","n","k","-","s","e","a","r","c","h","=">> \o fmt(kind) \o <<"=">> \o display(path))
             ELSE println(<<"c","a","r","g",":",":","r","u","s","t","c","-","l","i","n","k","-","s","e","a","r","c","h","=">> \o display(path))
        /\ Called("link_search", path, <<>>, kind)

flags(T) ==
    /\ budget > 0
    /\ \E f \in T :
        /\ println(<<"c","a","r","g","o",":",":","r","u","s","t","c","-","f","l","a","g","s","=">> \o f)
        /\ Called("flags", f, <<>>, "-")

\* cfg that writes the value without the double quotes
cfg_unquoted(T) ==
    /\ budget > 0
    /\ \E key \in T, value \in Option(T) :
        /\ IF value.some
             THEN println(<<"c","a","r","g","o",":",":","r","u","s","t","c","-","c","f","g","=">> \o key \o <<"=">> \o value.v)
             ELSE println(<<"c","a","r","g","o",":",":","r","u","s","t","c","-","c","f","g","=">> \o key)
        /\ Called("cfg", key, value.v, IF value.some THEN "Some" ELSE "None")

cfg(T) ==
    /\ budget > 0
    /\ \E key \in T, value \in Option(T) :
        /\ IF value.some
             THEN println(<<"c","a","r","g","o",":",":","r","u","s","t","c","-","c","f","g","=">> \o key \o <<"=","\"">> \o value.v \o <<"\"">>)
             ELSE println(<<"c","a","r","g","o",":",":","r","u","s","t","c","-","c","f","g","=">> \o key)
        /\ Called("cfg", key, value.v, IF value.some THEN "Some" ELSE "None")

check_cfg(T) ==
    /\ budget > 0
    /\ \E c \in T :
        /\ println(<<"c","a","r","g","o",":",":","r","u","s","t","c","-","c","h","e","c","k","-","c","f","g","=">> \o c)
        /\ Called("check_cfg", c, <<>>, "-")

env(T) ==
    /\ budget > 0
    /\ \E var \in T, value \in T :
        /\ println(<<"c","a","r","g","o",":",":","r","u","s","t","c","-","e","n","v","=">> \o var \o <<"=">> \o value)
        /\ Called("env", var, value, "-")

cdylib_link_arg(T) ==
    /\ budget > 0
    /\ \E flag \in T :
        /\ println(<<"c","a","r","g","o",":",":","r","u","s","t","c","-","c","d","y","l","i","b","-","l","i","n","k","-","a","r","g","=">> \o flag)
        /\ Called("cdylib_link_arg", flag, <<>>, "-")

----------------------------------------------------------------------------
\* cargo.rs: the environment accessor.

NotSet == [set |-> FALSE, v |-> <<>>]
IsSet(value) == [set |-> TRUE, v |-> value]

\* define_env_getter! { name: type => key; ... }
Getters == {
    [name |-> "binary_path",       ty |-> "PathBuf", key |-> "CARGO"],
    [name |-> "manifest_dir",      ty |-> "PathBuf", key |-> "CARGO_MANIFEST_DIR"],
    [name |-> "manifest_path",     ty |-> "PathBuf", key |-> "CARGO_MANIFEST_PATH"],
    [name |-> "pkg_version",       ty |-> "String",  key |-> "CARGO_PKG_VERSION"],
    [name |-> "pkg_version_major", ty |-> "String",  key |-> "CARGO_PKG_VERSION_MAJOR"],
    [name |-> "pkg_version_minor", ty |-> "String",  key |-> "CARGO_PKG_VERSION_MINOR"],
    [name |-> "pkg_version_patch", ty |-> "String",  key |-> "CARGO_PKG_VERSION_PATCH"],
    [name |-> "pkg_version_pre",   ty |-> "String",  key |-> "CARGO_PKG_VERSION_PRE"],
    [name |-> "pkg_authors",       ty |-> "String",  key |-> "CARGO_PKG_AUTHORS"],
    [name |-> "pkg_name",          ty |-> "String",  key |-> "CARGO_PKG_NAME"],
    [name |-> "pkg_description",   ty |-> "String",  key |-> "CARGO_PKG_DESCRIPTION"],
    [name |-> "pkg_homepage",      ty |-> "String",  key |-> "CARGO_PKG_HOMEPAGE"],
    [name |-> "pkg_repository",    ty |-> "String",  key |-> "CARGO_PKG_REPOSITORY"],
    [name |-> "pkg_license",       ty |-> "String",  key |-> "CARGO_PKG_LICENSE"],
    [name |-> "pkg_license_file",  ty |-> "PathBuf", key |-> "CARGO_PKG_LICENSE_FILE"],
    [name |-> "pkg_rust_version",  ty |-> "String",  key |-> "CARGO_PKG_RUST_VERSION"],
    [name |-> "pkg_readme",        ty |-> "PathBuf", key |-> "CARGO_PKG_README"],
    [name |-> "crate_name",        ty |-> "String",  key |-> "CARGO_CRATE_NAME"],
    [name |-> "bin_name",          ty |-> "String",  key |-> "CARGO_BIN_NAME"],
    [name |-> "out_dir",           ty |-> "PathBuf", key |-> "OUT_DIR"],
    [name |-> "target_tmpdir",     ty |-> "PathBuf", key |-> "CARGO_TARGET_TMPDIR"],
    [name |-> "rustc_current_dir", ty |-> "PathBuf", key |-> "CARGO_RUSTC_CURRENT_DIR"] }

\* format!("CARGO_BIN_EXE_{binary_name}")
BinExeKey(binary_name) == "CARGO_BIN_EXE_" \o binary_name

PrimaryPackageKey == "CARGO_PRIMARY_PACKAGE"

\* the variables the model's environment can hold
EnvKeys ==
    {g.key : g \in Getters} \cup {PrimaryPackageKey} \cup {BinExeKey(n) : n \in BinNames}

\* a lookup that takes an empty value for an absent variable
var_empty_is_absent(key) ==
    IF key \notin DOMAIN environ \/ ~environ[key].set \/ environ[key].v = <<>>
      THEN [tag |-> "NotPresent", ty |-> "VarError", v |-> <<>>]
      ELSE IF \E i \in DOMAIN environ[key].v : environ[key].v[i] = BadByte
             THEN [tag |-> "NotUnicode", ty |-> "VarError", v |-> environ[key].v]
             ELSE [tag |-> "Ok", ty |-> "String", v |-> environ[key].v]
\* std::env::var(key): Err(NotPresent) when unset, Err(NotUnicode(value)) when
\* the value is not valid Unicode, Ok(value) otherwise
var(key) ==
    IF key \notin DOMAIN environ \/ ~environ[key].set
      THEN [tag |-> "NotPresent", ty |-> "VarError", v |-> <<>>]
      ELSE IF \E i \in DOMAIN environ[key].v : environ[key].v[i] = BadByte
             THEN [tag |-> "NotUnicode", ty |-> "VarError", v |-> environ[key].v]
             ELSE [tag |-> "Ok", ty |-> "String", v |-> environ[key].v]

\* .map(Into::into): Ok(String) becomes Ok(result type), the same characters
map_into(r, ty) == IF r.tag = "Ok" THEN [r EXCEPT !.ty = ty] ELSE r

\* .is_ok()
is_ok(r) ==
    [tag |-> IF r.tag = "Ok" THEN "true" ELSE "false", ty |-> "bool", v |-> <<>>]

\* a read returns and changes nothing
Returned(op, arg, res) ==
    /\ ret' = [op |-> op, arg |-> arg, res |-> res]
    /\ UNCHANGED <<stdout, calls, environ, budget>>

\* a getter that takes the variable out of the environment as it reads it
getter_consuming ==
    \E g \in Getters :
        /\ ret' = [op |-> g.name, arg |-> "", res |-> map_into(var(g.key), g.ty)]
        /\ environ' = [environ EXCEPT ![g.key] = NotSet]
        /\ UNCHANGED <<stdout, calls, budget>>
\* every function define_env_getter! generates
getter ==
    \E g \in Getters : Returned(g.name, "", map_into(var(g.key), g.ty))

\* a lookup that upper-cases the binary name
binary_executable_path_uppercased ==
    \E binary_name \in BinNames :
        Returned("binary_executable_path", binary_name,
                 map_into(var(BinExeKey(IF binary_name = "foo" THEN "FOO" ELSE binary_name)),
                          "PathBuf"))

binary_executable_path ==
    \E binary_name \in BinNames :
        Returned("binary_executable_path", binary_name,
                 map_into(var(BinExeKey(binary_name)), "PathBuf"))

is_primary_package ==
    Returned("is_primary_package", "", is_ok(var(PrimaryPackageKey)))

\* The host changes the environment between calls (std::env::set_var /
\* remove_var by the script, or the orchestrator before it starts).
NoRet == [op |-> "host", arg |-> "", res |-> Unit]

set_var(K) ==
    /\ budget > 0
    /\ \E key \in K, value \in OsValues :
        /\ budget' = budget - 1
        /\ environ' = [environ EXCEPT ![key] = IsSet(value)]
        /\ ret' = NoRet
        /\ UNCHANGED <<stdout, calls>>

remove_var(K) ==
    /\ budget > 0
    /\ \E key \in K :
        /\ environ[key].set
        /\ budget' = budget - 1
        /\ environ' = [environ EXCEPT ![key] = NotSet]
        /\ ret' = NoRet
        /\ UNCHANGED <<stdout, calls>>
----------------------------------------------------------------------------
\* Specifications.

\* the environment a run starts in: cargo has set the package's variables;
\* the primary-package marker and the per-binary paths are not set
InitEnv ==
    [k \in EnvKeys |-> IF k \in {g.key : g \in Getters} THEN IsSet(<<"d","e","m","o">>) ELSE NotSet]

InitWith(n) ==
    /\ stdout = <<>>
    /\ calls = <<>>
    /\ environ = InitEnv
    /\ ret = NoRet
    /\ budget = n

Init == InitWith(MaxOps)

\* the variables the host changes in a run of the whole library: one of a text
\* getter, one of a path getter, the marker and the per-binary paths
HostKeys ==
    {"CARGO_PKG_NAME", "OUT_DIR", PrimaryPackageKey} \cup {BinExeKey(n) : n \in BinNames}

\* the whole library: directives, reads, and the host changing the environment
Next ==
    \/ rerun_if_changed(OneText)
    \/ rerun_if_env_changed(OneText)
    \/ warning(OneText)
    \/ metadata(OneText)
    \/ link_arg(OneText)
    \/ link_arg_bin(OneText)
    \/ link_arg_bins(OneText)
    \/ link_lib(OneText)
    \/ link_arg_tests(OneText)
    \/ link_arg_examples(OneText)
    \/ link_search(OneText)
    \/ flags(OneText)
    \/ cfg(OneText)
    \/ check_cfg(OneText)
    \/ env(OneText)
    \/ cdylib_link_arg(OneText)
    \/ getter
    \/ binary_executable_path
    \/ is_primary_package
    \/ set_var(HostKeys)
    \/ remove_var(HostKeys)

Spec == Init /\ [][Next]_vars

\* the environment accessor alone, the host changing any variable
InitEnvOnly == InitWith(MaxEnvOps)

NextEnv ==
    \/ getter
    \/ binary_executable_path
    \/ is_primary_package
    \/ set_var(EnvKeys)
    \/ remove_var(EnvKeys)

SpecEnv == InitEnvOnly /\ [][NextEnv]_vars

\* the directive emitter alone, one call over the full payload pool
InitEmit == InitWith(MaxCalls)

NextEmit ==
    \/ rerun_if_changed(Text)
    \/ rerun_if_env_changed(Text)
    \/ warning(Text)
    \/ metadata(Text)
    \/ link_arg(Text)
    \/ link_arg_bin(Text)
    \/ link_arg_bins(Text)
    \/ link_lib(Text)
    \/ link_arg_tests(Text)
    \/ link_arg_examples(Text)
    \/ link_search(Text)
    \/ flags(Text)
    \/ cfg(Text)
    \/ check_cfg(Text)
    \/ env(Text)
    \/ cdylib_link_arg(Text)

SpecEmit == InitEmit /\ [][NextEmit]_vars

\* the directive emitter alone, sequences of calls
InitLog == InitWith(MaxLog)

NextLog ==
    \/ rerun_if_changed(LogText)
    \/ rerun_if_env_changed(LogText)
    \/ warning(LogText)
    \/ metadata(LogText)
    \/ link_arg(LogText)
    \/ link_arg_bin(LogText)
    \/ link_arg_bins(LogText)
    \/ link_lib(LogText)
    \/ link_arg_tests(LogText)
    \/ link_arg_examples(LogText)
    \/ link_search(LogText)
    \/ flags(LogText)
    \/ cfg(LogText)
    \/ check_cfg(LogText)
    \/ env(LogText)
    \/ cdylib_link_arg(LogText)

SpecLog == InitLog /\ [][NextLog]_vars
----------------------------------------------------------------------------
\* What the claims are stated with.

QUOTE == "\""
EQ == "="

Last(s) == s[Len(s)]
Count(c, s) == Cardinality({i \in DOMAIN s : s[i] = c})
IsText(s) == \A i \in DOMAIN s : s[i] # BadByte
IsPrefix(p, s) == Len(p) <= Len(s) /\ SubSeq(s, 1, Len(p)) = p

\* the step is a directive call
Emitted == Len(calls') = Len(calls) + 1
\* what the step wrote after everything stdout already held
Written == SubSeq(stdout', Len(stdout) + 1, Len(stdout'))

\* The format table: the namespace, the directive's name, '=', the payload.
Namespace == <<"c","a","r","g","o",":",":">>

DirectiveName(op) ==
    CASE op = "rerun_if_changed"     -> <<"r","e","r","u","n","-","i","f","-","c","h","a","n","g","e","d">>
      [] op = "rerun_if_env_changed" -> <<"r","e","r","u","n","-","i","f","-","e","n","v","-","c","h","a","n","g","e","d">>
      [] op = "warning"              -> <<"w","a","r","n","i","n","g">>
      [] op = "metadata"             -> <<"m","e","t","a","d","a","t","a">>
      [] op = "link_arg"             -> <<"r","u","s","t","c","-","l","i","n","k","-","a","r","g">>
      [] op = "link_arg_bin"         -> <<"r","u","s","t","c","-","l","i","n","k","-","a","r","g","-","b","i","n">>
      [] op = "link_arg_bins"        -> <<"r","u","s","t","c","-","l","i","n","k","-","a","r","g","-","b","i","n","s">>
      [] op = "link_arg_tests"       -> <<"r","u","s","t","c","-","l","i","n","k","-","a","r","g","-","t","e","s","t","s">>
      [] op = "link_arg_examples"    -> <<"r","u","s","t","c","-","l","i","n","k","-","a","r","g","-","e","x","a","m","p","l","e","s">>
      [] op = "cdylib_link_arg"      -> <<"r","u","s","t","c","-","c","d","y","l","i","b","-","l","i","n","k","-","a","r","g">>
      [] op = "link_lib"             -> <<"r","u","s","t","c","-","l","i","n","k","-","l","i","b">>
      [] op = "link_search"          -> <<"r","u","s","t","c","-","l","i","n","k","-","s","e","a","r","c","h">>
      [] op = "flags"                -> <<"r","u","s","t","c","-","f","l","a","g","s">>
      [] op = "cfg"                  -> <<"r","u","s","t","c","-","c","f","g">>
      [] op = "check_cfg"            -> <<"r","u","s","t","c","-","c","h","e","c","k","-","c","f","g">>
      [] op = "env"                  -> <<"r","u","s","t","c","-","e","n","v">>

KindName(kind) ==
    CASE kind = "Dependency" -> <<"d","e","p","e","n","d","e","n","c","y">>
      [] kind = "Crate"      -> <<"c","r","a","t","e">>
      [] kind = "Native"     -> <<"n","a","t","i","v","e">>
      [] kind = "Framework"  -> <<"f","r","a","m","e","w","o","r","k">>
      [] kind = "All"        -> <<"a","l","l">>

TwoFields == {"metadata", "link_arg_bin", "env"}
PathOps == {"rerun_if_changed", "link_search"}

\* the table's line for directive d, its fields p and q put in as they are
TableLine(d, p, q) ==
    CASE d.op \in TwoFields ->
           Namespace \o DirectiveName(d.op) \o <<EQ>> \o p \o <<EQ>> \o q
      [] d.op = "link_search" /\ d.opt # "None" ->
           Namespace \o DirectiveName(d.op) \o <<EQ>> \o KindName(d.opt) \o <<EQ>> \o p
      [] d.op = "link_search" /\ d.opt = "None" ->
           <<"c","a","r","g",":",":">> \o DirectiveName(d.op) \o <<EQ>> \o p
      [] d.op = "cfg" /\ d.opt = "Some" ->
           Namespace \o DirectiveName(d.op) \o <<EQ>> \o p \o <<EQ, QUOTE>> \o q \o <<QUOTE>>
      [] OTHER ->
           Namespace \o DirectiveName(d.op) \o <<EQ>> \o p

\* the line of directive d: a path field is rendered for display
Encode(d) == TableLine(d, IF d.op \in PathOps THEN display(d.a) ELSE d.a, d.b)

RECURSIVE Log(_)
Log(cs) == IF cs = <<>> THEN <<>> ELSE Log(SubSeq(cs, 1, Len(cs) - 1)) \o Encode(Last(cs)) \o <<NL>>

\* stdout cut at its line terminators: line k ends before the k-th of them
Lines(s) ==
    LET ends == {i \in DOMAIN s : s[i] = NL}
        end(k) == CHOOSE i \in ends : Cardinality({j \in ends : j <= i}) = k
    IN  [k \in 1..Cardinality(ends) |->
            SubSeq(s, (IF k = 1 THEN 0 ELSE end(k - 1)) + 1, end(k) - 1)]

\* a payload of text with no '=' and no line break
WellFormed(d) ==
    /\ IsText(d.a) /\ IsText(d.b)
    /\ Count(EQ, d.a \o d.b) = 0
    /\ Count(NL, d.a \o d.b) = 0

ReadOps == {g.name : g \in Getters} \cup {"binary_executable_path", "is_primary_package"}

----------------------------------------------------------------------------
\* The claims.

\* C1: every directive call with text payloads (the empty string and strings
\* with '=' among them) writes exactly the line of the format table for its
\* variant, the payload fields put in verbatim, and the line terminator.
C1_TableLine ==
    [][(Emitted /\ IsText(Last(calls').a) /\ IsText(Last(calls').b))
          => stdout' = stdout \o TableLine(Last(calls'), Last(calls').a, Last(calls').b) \o <<NL>>]_vars

\* C1 witness: link_arg_bins("x=y") has written cargo::rustc-link-arg-bins=x=y
C1_Witness ==
    /\ calls # <<>>
    /\ Last(calls).op = "link_arg_bins"
    /\ Last(calls).a = <<"x","=","y">>
    /\ stdout = <<"c","a","r","g","o",":",":","r","u","s","t","c","-","l","i","n","k","-","a","r","g","-","b","i","n","s","=","x","=","y","\n">>

\* C2: after any sequence of directive calls the log is the lines of the
\* calls, each a function of its own call alone, in call order.
C2_LogInCallOrder == stdout = Log(calls)

\* C2 witness: two different calls have been made
C2_Witness ==
    /\ Len(calls) = 2
    /\ calls[1].op = "warning"
    /\ calls[2].op = "cfg"
    /\ Len(stdout) > 0

\* C3 as stated: the number of line terminators in the log equals the number
\* of directive calls, whatever the payloads.
C3_OneLinePerCall == Count(NL, stdout) = Len(calls)

\* the line breaks the payloads of the calls themselves contain
RECURSIVE PayloadBreaks(_)
PayloadBreaks(cs) ==
    IF cs = <<>> THEN 0
    ELSE PayloadBreaks(SubSeq(cs, 1, Len(cs) - 1)) + Count(NL, Last(cs).a \o Last(cs).b)

\* C3 amended: every call adds exactly one line terminator besides the line
\* breaks its payload contains, so the number of lines equals the number of
\* calls whenever no payload contains a line break.
C3_OneTerminatorPerCall == Count(NL, stdout) = Len(calls) + PayloadBreaks(calls)

\* C3 witness: two calls without line breaks, two lines
C3_Witness ==
    /\ Len(calls) = 2
    /\ PayloadBreaks(calls) = 0
    /\ Count(NL, stdout) = 2

\* C4: link_search with a kind writes cargo::rustc-link-search=<kind>=<path>,
\* without a kind carg::rustc-link-search=<path>, which does not start with
\* cargo::; every other directive's line starts with cargo::.
C4_LinkSearchPrefix ==
    [][Emitted =>
        LET d == Last(calls') IN
        /\ (d.op = "link_search" /\ d.opt # "None") =>
              Written = <<"c","a","r","g","o",":",":","r","u","s","t","c","-","l","i","n","k","-","s","e","a","r","c","h","=">> \o KindName(d.opt) \o <<EQ>> \o display(d.a) \o <<NL>>
        /\ (d.op = "link_search" /\ d.opt = "None") =>
              /\ Written = <<"c","a","r","g",":",":","r","u","s","t","c","-","l","i","n","k","-","s","e","a","r","c","h","=">> \o display(d.a) \o <<NL>>
              /\ ~IsPrefix(Namespace, Written)
        /\ d.op # "link_search" => IsPrefix(Namespace, Written)]_vars

\* C4 witness: link_search("a", None) has written carg::rustc-link-search=a
C4_Witness ==
    /\ calls # <<>>
    /\ Last(calls).op = "link_search"
    /\ Last(calls).opt = "None"
    /\ stdout = <<"c","a","r","g",":",":","r","u","s","t","c","-","l","i","n","k","-","s","e","a","r","c","h","=","a","\n">>

\* C5 as stated: cfg with a value writes cargo::rustc-cfg=<key>="<value>",
\* the value as it is; cfg without a value writes a line with no double quote.
C5_NeverQuotes ==
    [][(Emitted /\ Last(calls').op = "cfg") =>
        LET d == Last(calls') IN
        /\ d.opt = "Some" =>
              Written = <<"c","a","r","g","o",":",":","r","u","s","t","c","-","c","f","g","=">> \o d.a \o <<EQ, QUOTE>> \o d.b \o <<QUOTE, NL>>
        /\ d.opt = "None" => Count(QUOTE, Written) = 0]_vars

\* C5 amended: cfg with a value writes cargo::rustc-cfg=<key>="<value>", the
\* value as it is; cfg without a value writes cargo::rustc-cfg=<key> and adds
\* no double quote: the line holds none unless the key itself does.
C5_AddsNoQuotes ==
    [][(Emitted /\ Last(calls').op = "cfg") =>
        LET d == Last(calls') IN
        /\ d.opt = "Some" =>
              Written = <<"c","a","r","g","o",":",":","r","u","s","t","c","-","c","f","g","=">> \o d.a \o <<EQ, QUOTE>> \o d.b \o <<QUOTE, NL>>
        /\ d.opt = "None" =>
              /\ Written = <<"c","a","r","g","o",":",":","r","u","s","t","c","-","c","f","g","=">> \o d.a \o <<NL>>
              /\ Count(QUOTE, Written) = Count(QUOTE, d.a)]_vars

\* C5 witness: cfg("a", None) has written a line without a double quote
C5_Witness ==
    /\ calls # <<>>
    /\ Last(calls).op = "cfg"
    /\ Last(calls).opt = "None"
    /\ Last(calls).a = <<"a">>
    /\ Count(QUOTE, stdout) = 0

\* C6: is_primary_package returns true exactly when CARGO_PRIMARY_PACKAGE is
\* set, whatever its value.
C6_PresenceOnly ==
    ret.op = "is_primary_package" =>
        (ret.res.tag = "true" <=> environ[PrimaryPackageKey].set)

\* C7: a generated getter returns NotPresent exactly when its variable is
\* unset, NotUnicode exactly when it is set to bytes that are not text, and
\* otherwise the value unchanged, as its result type; the empty value included.
C7_GetterClassifies ==
    \A g \in Getters :
        ret.op = g.name =>
            LET e == environ[g.key] IN
            /\ ret.res.tag = "NotPresent" <=> ~e.set
            /\ ret.res.tag = "NotUnicode" <=> (e.set /\ ~IsText(e.v))
            /\ ret.res.tag = "Ok" <=> (e.set /\ IsText(e.v))
            /\ ret.res.tag = "Ok" => (ret.res.v = e.v /\ ret.res.ty = g.ty)

\* C7 witness: pkg_name has read a variable set to the empty string
C7_Witness ==
    /\ ret.op = "pkg_name"
    /\ environ["CARGO_PKG_NAME"] = IsSet(<<>>)
    /\ ret.res = [tag |-> "Ok", ty |-> "String", v |-> <<>>]

\* C8 as stated: binary_executable_path(name) succeeds with the value of
\* CARGO_BIN_EXE_<name> whenever that key is set and returns NotPresent when
\* it is not.
C8_SetMeansOk ==
    ret.op = "binary_executable_path" =>
        LET e == environ["CARGO_BIN_EXE_" \o ret.arg] IN
        /\ e.set => ret.res = [tag |-> "Ok", ty |-> "PathBuf", v |-> e.v]
        /\ ~e.set => ret.res.tag = "NotPresent"

\* C8 amended: binary_executable_path(name) reads exactly CARGO_BIN_EXE_<name>,
\* case preserved: the value as a path when that key is set to text,
\* NotUnicode when it is set to bytes that are not text, NotPresent when it is
\* absent, whatever a key of another letter case holds.
C8_ExactKey ==
    ret.op = "binary_executable_path" =>
        LET e == environ["CARGO_BIN_EXE_" \o ret.arg] IN
        /\ (e.set /\ IsText(e.v)) => ret.res = [tag |-> "Ok", ty |-> "PathBuf", v |-> e.v]
        /\ (e.set /\ ~IsText(e.v)) => ret.res.tag = "NotUnicode"
        /\ ~e.set => ret.res.tag = "NotPresent"

\* C8 witness: CARGO_BIN_EXE_FOO is set, CARGO_BIN_EXE_foo is not, and
\* binary_executable_path("foo") has returned NotPresent
C8_Witness ==
    /\ ret.op = "binary_executable_path"
    /\ ret.arg = "foo"
    /\ environ["CARGO_BIN_EXE_FOO"].set
    /\ ~environ["CARGO_BIN_EXE_foo"].set
    /\ ret.res.tag = "NotPresent"

\* the key a read operation reads
KeyOf(r) ==
    IF r.op = "binary_executable_path" THEN "CARGO_BIN_EXE_" \o r.arg
    ELSE IF r.op = "is_primary_package" THEN "CARGO_PRIMARY_PACKAGE"
    ELSE (CHOOSE g \in Getters : g.name = r.op).key

\* C9: a read returns what the environment holds at the moment of the call
\* (a value set, overwritten or removed since an earlier read is seen), and
\* neither a read nor a directive call changes the environment.
C9_LiveReads ==
    [][/\ ret'.op \in ReadOps =>
            LET e == environ[KeyOf(ret')] IN
            /\ environ' = environ
            /\ ~e.set => ret'.res.tag \in {"NotPresent", "false"}
            /\ (e.set /\ IsText(e.v)) =>
                   \/ ret'.res.tag = "Ok" /\ ret'.res.v = e.v
                   \/ ret'.res.tag = "true"
            /\ (e.set /\ ~IsText(e.v)) => ret'.res.tag # "Ok"
       /\ Emitted => environ' = environ]_vars

\* C9 witness: pkg_name has read the empty value the host set after start
C9_Witness ==
    /\ budget < MaxOps
    /\ InitEnv["CARGO_PKG_NAME"] = IsSet(<<"d","e","m","o">>)
    /\ ret.op = "pkg_name"
    /\ ret.res.tag = "Ok"
    /\ ret.res.v = <<>>

\* C10: when every payload is text without '=' and without a line break, two
\* calls write the same line only if they are the same operation (target
\* selector, kind and presence of a value included) with the same fields.
C10_Unambiguous ==
    (\A i \in DOMAIN calls : WellFormed(calls[i])) =>
        LET lines == Lines(stdout) IN
        \A i, j \in DOMAIN calls : lines[i] = lines[j] => calls[i] = calls[j]

\* C10 witness: link_arg("a") and link_arg_bins("a") have written two lines
C10_Witness ==
    /\ Len(calls) = 2
    /\ calls[1].op = "link_arg"
    /\ calls[2].op = "link_arg_bins"
    /\ calls[1].a = calls[2].a
    /\ WellFormed(calls[1])
    /\ Len(Lines(stdout)) = 2
====
